---- MODULE Spec2Model ----
(***************************************************************************)
(* Model of the infernet-node worker core:                                 *)
(*   - Orchestrator (src/src/orchestration/orchestrator.py): the unary     *)
(*     container pipeline _run_job with its two entry points, and the      *)
(*     streaming job generator process_streaming_job;                      *)
(*   - get_batches and ChainListener (src/src/chain/listener.py).          *)
(* Specifications sharing the module: SpecOrch (one orchestrator job),     *)
(* SpecResources (one collect_service_resources call), SpecBatches (the    *)
(* pure function get_batches), SpecListener (setup, run_forever,           *)
(* _snapshot_sync and the batch sync) and SpecResync (_snapshot_sync       *)
(* called twice with the same head block while the chain moves).           *)
(***************************************************************************)
EXTENDS Integers, Sequences, FiniteSets, TLC

VARIABLES
    \* ---- Orchestrator ----
    pc,          \* position of the orchestrator call
    job,         \* arguments of the running call
    ports,       \* ContainerManager: the containers whose port resolves
    index,       \* loop index of _run_job
    input_data,  \* the ContainerInput the next container will receive
    results,     \* the local list `results` of _run_job
    ret,         \* the list _run_job returned
    store,       \* DataStore calls, in call order
    sent,        \* HTTP POSTs issued, in order: container, request body, position
    received,    \* what each POST produced, in the same order
    chunks,      \* the local list `chunks` of process_streaming_job
    consumer,    \* chunks the stream consumer has received, in order
    consumer_end,\* how the stream ended for the consumer
    \* ---- Orchestrator.collect_service_resources ----
    configs,     \* ContainerManager._configs: the configured ids, in order
    tasks,       \* the dict `tasks`: per container id, its fetch coroutine
    completed,   \* container ids, in the order their fetch completed
    res_pc,      \* position of the collect_service_resources call
    res_ret,     \* the dict collect_service_resources returned
    \* ---- get_batches ----
    gb_args,     \* <<start, end, batch_size>>
    gb_out,      \* whether get_batches was called, and the list it returned
    \* ---- chain (environment of the listener) ----
    head,        \* the chain's head block number
    subs,        \* the Coordinator's subscriptions, subs[i] has id i
    advances,    \* how often the chain head has advanced
    \* ---- ChainListener ----
    l_pc,        \* position of the listener task
    shutdown,    \* self._shutdown
    last_block,  \* self._last_block
    last_subscription_id, \* self._last_subscription_id
    run,         \* locals of run_forever: head_block, target_block, head_sub_id
    sync,        \* locals of _snapshot_sync and of its retry wrapper
    last_read,   \* the most recent chain read and the block it was made at
    seen_head,   \* the head block get_head_block_number returned last
    resync_at,   \* length of `tracked` when _snapshot_sync was called again
    fetched,     \* the last batch whose two reads succeeded, with the IDs read
    covered,     \* the IDs of all batches whose two reads succeeded
    submitted,   \* Guardian.process_message calls, in order, with the verdict
    tracked      \* IDs handed to ChainProcessor.track, in order

orchVars == <<pc, job, ports, index, input_data, results, ret, store, sent,
              received, chunks, consumer, consumer_end>>
resVars == <<configs, tasks, completed, res_pc, res_ret>>
batchVars == <<gb_args, gb_out>>
chainVars == <<head, subs, advances>>
listenerVars == <<l_pc, shutdown, last_block, last_subscription_id, run, sync,
                  last_read, seen_head, resync_at, fetched, covered, submitted,
                  tracked>>
vars == <<orchVars, resVars, batchVars, chainVars, listenerVars>>

---------------------------------------------------------------------------
(* Python values *)

None == "None"
PyTrue == "True"
PyFalse == "False"

\* bool(x) for x an Optional[bool]
PyBool(x) == IF x = PyTrue THEN PyTrue ELSE PyFalse

MinFirst(a, b) == a

Min(a, b) == IF a <= b THEN a ELSE b

---------------------------------------------------------------------------
(* Bounds of the model *)

\* longest container list of a job
MaxContainers == 3
\* most chunks a streaming response delivers
MaxChunks == 2
\* largest start and end handed to get_batches in SpecBatches
MaxId == 6
\* largest batch_size handed to get_batches in SpecBatches
MaxBatchSize == 4
\* most subscriptions the Coordinator holds
MaxSubs == 3
\* how often the chain head advances
MaxAdvances == 1
\* failed attempts of one batch after which its reads succeed
MaxRetries == 2
\* trail_head_blocks of the listener's configuration
Trail == 1
\* snapshot_sync_batch_size of the listener's configuration
BatchSize == 2

---------------------------------------------------------------------------
(* Orchestrator: data *)

ONCHAIN == "ONCHAIN"
OFFCHAIN == "OFFCHAIN"
STREAM == "STREAM"

ContainerIds == {"A", "B"}

ContainerLists == UNION {[1..n -> ContainerIds] : n \in 0..MaxContainers}

\* the job inputs ChainProcessor hands over
ChainJobInputs ==
    [source : {ONCHAIN}, destination : {ONCHAIN, OFFCHAIN}, data : {"d0"}]

\* the messages the REST API hands over
OffchainMessages ==
    [id : {"m1"}, containers : ContainerLists, data : {"d0"},
     requires_proof : {PyTrue, PyFalse, None}]

\* parsed JSON bodies a container may answer with
Outputs == {"o1", "o2"}

HttpStatuses == {200, 500}

ContainerInput(source, destination, data, requires_proof) ==
    [source |-> source, destination |-> destination, data |-> data,
     requires_proof |-> requires_proof]

JobInput(source, destination, data) ==
    [source |-> source, destination |-> destination, data |-> data]

ContainerOutput(container, output) ==
    [kind |-> "Success", container |-> container, payload |-> output]

ContainerError(container, error) ==
    [kind |-> "Error", container |-> container, payload |-> error]

\* DataStore calls as they are logged in `store` (the message by its id)
SetRunning(message) ==
    [op |-> "set_running", message |-> message.id, container |-> None,
     status |-> None, results |-> <<>>]
SetSuccess(message, res) ==
    [op |-> "set_success", message |-> message.id, container |-> None,
     status |-> None, results |-> res]
SetFailed(message, res) ==
    [op |-> "set_failed", message |-> message.id, container |-> None,
     status |-> None, results |-> res]
TrackContainerStatus(container, status) ==
    [op |-> "track_container_status", message |-> None,
     container |-> container, status |-> status, results |-> <<>>]

\* `message=None` of process_chain_processor_job
NoMessage == [id |-> None, containers |-> <<>>, data |-> None,
              requires_proof |-> None]

NoJob == [entry |-> None, job_input |-> JobInput(None, None, None),
          containers |-> <<>>, message |-> NoMessage, requires_proof |-> None]
NoInput == ContainerInput(None, None, None, None)

\* the orchestrator before any call
OrchIdle ==
    /\ pc = "idle"
    /\ job = NoJob
    /\ index = 0
    /\ input_data = NoInput
    /\ results = <<>>
    /\ ret = None
    /\ store = <<>>
    /\ sent = <<>>
    /\ received = <<>>
    /\ chunks = <<>>
    /\ consumer = <<>>
    /\ consumer_end = None

---------------------------------------------------------------------------
(* Orchestrator._run_job *)

\* What one `session.post(...)` + `response.json()` can produce:
\*   json            : response.json() returns the parsed body (any HTTP status:
\*                     _run_job never reads response.status)
\*   JSONDecodeError : the body is not JSON; response.text() is `body`
\*   Exception       : timeout, refused connection, ...; str(e) is `body`
Responses ==
    [kind : {"json"}, status : HttpStatuses, body : Outputs]
    \cup [kind : {"JSONDecodeError"}, status : HttpStatuses, body : {"overload"}]
    \cup [kind : {"Exception"}, status : {0}, body : {"timeout"}]

\* destination of the first ContainerInput
FirstDestination(containers, job_input) ==
    IF Len(containers) = 1 THEN job_input.destination ELSE OFFCHAIN

NextDestinationOffByOne(idx, containers, job_input) ==
    IF idx = Len(containers) - 1 THEN job_input.destination ELSE OFFCHAIN

\* destination of the ContainerInput built after container `idx` answered
NextDestination(idx, containers, job_input) ==
    IF idx = Len(containers) - 2 THEN job_input.destination ELSE OFFCHAIN

FirstInput(containers, job_input, requires_proof) ==
    ContainerInput(job_input.source,
                   FirstDestination(containers, job_input),
                   job_input.data,
                   PyBool(requires_proof))

NextInputStaleData(idx, containers, job_input, output, requires_proof) ==
    ContainerInput(OFFCHAIN,
                   NextDestination(idx, containers, job_input),
                   job_input.data,
                   PyBool(requires_proof))

\* the ContainerInput built after container `idx` answered `output`
NextInput(idx, containers, job_input, output, requires_proof) ==
    ContainerInput(OFFCHAIN,
                   NextDestination(idx, containers, job_input),
                   output,
                   PyBool(requires_proof))

ResultsOnSuccessDropped(res, container, output) == res

\* results.append(ContainerOutput(container, output))
ResultsOnSuccess(res, container, output) ==
    Append(res, ContainerOutput(container, output))

StoreOnFailureTrackFirst(message, res, container) ==
    <<TrackContainerStatus(container, "failed"), SetFailed(message, res)>>

StoreOnFailureNoJobStatus(message, res, container) ==
    <<TrackContainerStatus(container, "failed")>>

\* both except branches: set_failed(message, results), then
\* track_container_status(container, "failed")
StoreOnFailure(message, res, container) ==
    <<SetFailed(message, res), TrackContainerStatus(container, "failed")>>

PcAfterFailureContinue(idx, containers) ==
    IF idx + 1 < Len(containers) THEN "run_job" ELSE "returned"

\* both except branches end in `return results`
PcAfterFailure(idx, containers) == "returned"

\* Entry of _run_job up to the first suspension point: set_running, the first
\* ContainerInput, and, for an empty container list, the loop that runs zero
\* times followed by set_success and the return.
RunJob(entry, job_input, containers, message, requires_proof) ==
    /\ pc = "idle"
    /\ job' = [entry |-> entry, job_input |-> job_input,
               containers |-> containers, message |-> message,
               requires_proof |-> requires_proof]
    /\ results' = <<>>
    /\ index' = 0
    /\ input_data' = FirstInput(containers, job_input, requires_proof)
    /\ IF containers = <<>>
       THEN /\ store' = <<SetRunning(message), SetSuccess(message, <<>>)>>
            /\ ret' = <<>>
            /\ pc' = "returned"
       ELSE /\ store' = <<SetRunning(message)>>
            /\ ret' = None
            /\ pc' = "run_job"
    /\ UNCHANGED <<ports, sent, received, chunks, consumer, consumer_end>>

process_chain_processor_job(job_input, containers, requires_proof) ==
    RunJob("process_chain_processor_job", job_input, containers, NoMessage,
           requires_proof)

process_offchain_job(message) ==
    RunJob("process_offchain_job",
           JobInput(OFFCHAIN, OFFCHAIN, message.data),
           message.containers, message, message.requires_proof)

\* One iteration of `for index, container in enumerate(containers)`, with the
\* response `resp`; after the last container, set_success and the return.
CallContainer(resp) ==
    /\ pc = "run_job"
    /\ index < Len(job.containers)
    /\ LET container == job.containers[index + 1]
           last == index + 1 = Len(job.containers)
       IN IF container \notin ports
          THEN \* get_port raises outside the try block: the call ends in an
               \* exception, nothing is recorded
               /\ pc' = "raised"
               /\ UNCHANGED <<index, input_data, results, ret, store, sent,
                              received>>
          ELSE /\ sent' = Append(sent, [container |-> container,
                                        body |-> input_data,
                                        position |-> index])
               /\ received' = Append(received, resp)
               /\ index' = index + 1
               /\ IF resp.kind = "json"
                  THEN LET res == ResultsOnSuccess(results, container, resp.body)
                       IN /\ results' = res
                          /\ input_data' = NextInput(index, job.containers,
                                                     job.job_input, resp.body,
                                                     job.requires_proof)
                          /\ store' = store
                                \o <<TrackContainerStatus(container, "success")>>
                                \o (IF last THEN <<SetSuccess(job.message, res)>>
                                            ELSE <<>>)
                          /\ pc' = IF last THEN "returned" ELSE "run_job"
                          /\ ret' = IF last THEN res ELSE None
                  ELSE LET res == Append(results,
                                         ContainerError(container, resp.body))
                           next == PcAfterFailure(index, job.containers)
                       IN /\ results' = res
                          /\ input_data' = input_data
                          /\ store' = store
                                \o StoreOnFailure(job.message, res, container)
                          /\ pc' = next
                          /\ ret' = IF next = "returned" THEN res ELSE None
    /\ UNCHANGED <<job, ports, chunks, consumer, consumer_end>>

---------------------------------------------------------------------------
(* Orchestrator.process_streaming_job *)

\* chunks response.content.iter_any() may deliver: 104 is "h", 195 169 is the
\* two-byte UTF-8 encoding of U+00E9, which a chunk boundary may split
ChunkSet == {<<104>>, <<195, 169>>, <<195>>, <<169>>}

RECURSIVE Join(_)
\* b"".join(chunks)
Join(cs) == IF cs = <<>> THEN <<>> ELSE Head(cs) \o Join(Tail(cs))

RECURSIVE Utf8Decode(_)
\* bytes.decode("utf-8") on one- and two-byte sequences (the bytes of ChunkSet):
\* ok is FALSE where Python raises UnicodeDecodeError, text is the code points
Utf8Decode(b) ==
    IF b = <<>> THEN [ok |-> TRUE, text |-> <<>>]
    ELSE IF b[1] < 128
         THEN LET r == Utf8Decode(Tail(b))
              IN [ok |-> r.ok, text |-> <<b[1]>> \o r.text]
    ELSE IF b[1] \in 194..223 /\ Len(b) >= 2 /\ b[2] \in 128..191
         THEN LET r == Utf8Decode(SubSeq(b, 3, Len(b)))
              IN [ok |-> r.ok,
                  text |-> <<(b[1] - 192) * 64 + (b[2] - 128)>> \o r.text]
    ELSE [ok |-> FALSE, text |-> <<>>]

\* response.raise_for_status()
RaiseForStatus(status) == status >= 400

\* what the POST of the streaming request can produce
StreamResponses ==
    [kind : {"response"}, status : HttpStatuses]
    \cup [kind : {"Exception"}, status : {0}]

StreamResultLastChunk(cs) ==
    IF cs = <<>> THEN Utf8Decode(<<>>) ELSE Utf8Decode(cs[Len(cs)])

\* final_result = b"".join(chunks).decode("utf-8")
StreamResult(cs) == Utf8Decode(Join(cs))

\* `except Exception` of process_streaming_job: the job and the container are
\* marked failed and the handler ends without re-raising, so the generator
\* finishes like one that ran to completion
StreamFailed(error) ==
    /\ store' = store
          \o <<SetFailed(job.message,
                         <<ContainerError(job.containers[1], error)>>),
               TrackContainerStatus(job.containers[1], "failed")>>
    /\ consumer_end' = "ended"
    /\ pc' = "returned"

\* Entry of the generator up to the POST: containers[0], get_port, set_running
process_streaming_job(message) ==
    /\ pc = "idle"
    /\ job' = [entry |-> "process_streaming_job",
               job_input |-> JobInput(OFFCHAIN, STREAM, message.data),
               containers |-> message.containers, message |-> message,
               requires_proof |-> message.requires_proof]
    /\ IF message.containers = <<>> \/ message.containers[1] \notin ports
       THEN \* IndexError or the get_port error, raised before the try block
            /\ pc' = "raised"
            /\ consumer_end' = "raised"
            /\ UNCHANGED <<store, chunks>>
       ELSE /\ store' = <<SetRunning(message)>>
            /\ chunks' = <<>>
            /\ pc' = "stream_post"
            /\ UNCHANGED consumer_end
    /\ UNCHANGED <<ports, index, input_data, results, ret, sent, received,
                   consumer>>

\* session.post(...) and response.raise_for_status()
StreamPost(resp) ==
    /\ pc = "stream_post"
    /\ sent' = Append(sent, [container |-> job.containers[1],
                             body |-> job.job_input,
                             position |-> 0])
    /\ received' = Append(received, resp)
    /\ IF resp.kind = "response" /\ ~RaiseForStatus(resp.status)
       THEN /\ pc' = "stream_read"
            /\ UNCHANGED <<store, consumer_end>>
       ELSE StreamFailed("post failed")
    /\ UNCHANGED <<job, ports, index, input_data, results, ret, chunks,
                   consumer>>

\* one round of `async for chunk in response.content.iter_any()`:
\* chunks.append(chunk); yield chunk
StreamChunk(chunk) ==
    /\ pc = "stream_read"
    /\ Len(chunks) < MaxChunks
    /\ chunks' = Append(chunks, chunk)
    /\ consumer' = Append(consumer, chunk)
    /\ UNCHANGED <<pc, job, ports, index, input_data, results, ret, store,
                   sent, received, consumer_end>>

\* iter_any() raises (the connection drops while the body is read)
StreamReadError ==
    /\ pc = "stream_read"
    /\ StreamFailed("read failed")
    /\ UNCHANGED <<job, ports, index, input_data, results, ret, sent,
                   received, chunks, consumer>>

\* the body ends: join, decode, set_success, track_container_status
StreamEnd ==
    /\ pc = "stream_read"
    /\ LET final_result == StreamResult(chunks)
       IN IF final_result.ok
          THEN /\ store' = store
                     \o <<SetSuccess(job.message,
                                     <<ContainerOutput(job.containers[1],
                                          [output |-> final_result.text])>>),
                          TrackContainerStatus(job.containers[1], "success")>>
               /\ consumer_end' = "ended"
               /\ pc' = "returned"
          ELSE StreamFailed("decode failed")
    /\ UNCHANGED <<job, ports, index, input_data, results, ret, sent,
                   received, chunks, consumer>>

\* the consumer closes the generator while it is suspended at `yield chunk`:
\* GeneratorExit is no Exception, so no handler of the generator runs
ConsumerClose ==
    /\ pc = "stream_read"
    /\ chunks # <<>>
    /\ pc' = "closed"
    /\ consumer_end' = "closed"
    /\ UNCHANGED <<job, ports, index, input_data, results, ret, store, sent,
                   received, chunks, consumer>>

---------------------------------------------------------------------------
(* Orchestrator.collect_service_resources *)

\* the ids of the containers ContainerManager may be configured with
ConfigIds == {"A", "B", "C"}

\* ContainerManager._configs: a list of container configurations with
\* distinct ids
ConfigLists ==
    {cs \in UNION {[1..n -> ConfigIds] : n \in 0..Cardinality(ConfigIds)} :
        \A i, j \in 1..Len(cs) : i # j => cs[i] # cs[j]}

\* the `model_id` argument
ModelIds == {None, "", "m1"}

NoResponse == [kind |-> None, status |-> 0, body |-> None]
NoTasks == [c \in {} |-> None]

\* collect_service_resources before any call
ResourcesIdle ==
    /\ configs = <<>>
    /\ tasks = NoTasks
    /\ completed = <<>>
    /\ res_pc = "idle"
    /\ res_ret = NoTasks

\* the URL of a container: with the model_id query `if model_id`, that is
\* for a model_id that is neither None nor empty
ResourcesUrl(container, model_id) ==
    [container |-> container,
     query |-> IF model_id = None \/ model_id = "" THEN None ELSE model_id]

\* fetch(session, url): the parsed body (a JSON object, written as one of
\* Outputs) of a response that raise_for_status lets through; None when
\* session.get, raise_for_status or response.json() raised
fetch(resp) ==
    IF resp.kind = "json" /\ ~RaiseForStatus(resp.status) THEN resp.body
    ELSE None

GatherResultsByCompletion(ts, order, done) ==
    [i \in 1..Len(order) |-> ts[done[i]].result]

\* asyncio.gather(*tasks.values()): the results in the order of
\* tasks.values(), whatever the order `done` the fetches completed in
GatherResults(ts, order, done) ==
    [i \in 1..Len(order) |-> ts[order[i]].result]

\* {container_id: result for container_id, result in zip(tasks.keys(),
\*  results) if result is not None}
ResourceMap(order, res) ==
    [c \in {order[i] : i \in {j \in 1..Len(order) : res[j] # None}} |->
        res[CHOOSE i \in 1..Len(order) : order[i] = c]]

\* collect_service_resources(model_id) up to `await asyncio.gather(...)`: one
\* fetch coroutine per configured container; with no container configured
\* gather has nothing to wait for and {} is returned
collect_service_resources(model_id) ==
    /\ res_pc = "idle"
    /\ tasks' = [c \in {configs[i] : i \in 1..Len(configs)} |->
                    [url |-> ResourcesUrl(c, model_id), state |-> "created",
                     response |-> NoResponse, result |-> None]]
    /\ IF configs = <<>>
       THEN /\ res_pc' = "returned"
            /\ res_ret' = ResourceMap(<<>>, <<>>)
       ELSE /\ res_pc' = "gather"
            /\ UNCHANGED res_ret
    /\ UNCHANGED <<configs, completed>>

\* fetch of `container` reaches session.get(url): the request is on the wire
FetchGet(container) ==
    /\ res_pc = "gather"
    /\ container \in DOMAIN tasks
    /\ tasks[container].state = "created"
    /\ tasks' = [tasks EXCEPT ![container].state = "sent"]
    /\ UNCHANGED <<configs, completed, res_pc, res_ret>>

\* the request of `container` is answered by `resp` and its fetch returns;
\* when it was the last one, gather returns and the dict is built
FetchRespond(container, resp) ==
    /\ res_pc = "gather"
    /\ container \in DOMAIN tasks
    /\ tasks[container].state = "sent"
    /\ tasks' = [tasks EXCEPT ![container].state = "done",
                              ![container].response = resp,
                              ![container].result = fetch(resp)]
    /\ completed' = Append(completed, container)
    /\ IF \A c \in DOMAIN tasks : tasks'[c].state = "done"
       THEN /\ res_ret' = ResourceMap(configs,
                              GatherResults(tasks', configs, completed'))
            /\ res_pc' = "returned"
       ELSE UNCHANGED <<res_pc, res_ret>>
    /\ UNCHANGED configs

---------------------------------------------------------------------------
(* Chain and ChainListener: data *)

\* snapshot_sync_sleep left at its default
SNAPSHOT_SYNC_BATCH_SLEEP_S == 1
\* the cap on blocks synced per run_forever iteration
BlockStepCap == 100

\* block numbers the head may advance by in one step of the environment
AdvanceSteps == {1, 101}

\* the blocks, among those a step of the environment adds on top of head h,
\* that a new subscription may be created in: the first one, the last one
\* and the one before the last
NewBlocks(h, step) == {h + 1, h + step - 1, h + step} \ {h}

\* head block of the chain when the listener starts
StartHead == 10

\* A subscription as the Reader returns it: the block it was created at, the
\* value of Subscription.last_interval, and whether Guardian accepts its
\* SubscriptionCreatedMessage
NewSubscriptions(block) ==
    {[created |-> block, last_interval |-> TRUE, accepted |-> TRUE],
     [created |-> block, last_interval |-> TRUE, accepted |-> FALSE],
     [created |-> block, last_interval |-> FALSE, accepted |-> TRUE]}

NoRead == [call |-> None, block |-> 0]
NoBatch == [batch |-> <<0, 0>>, block |-> 0, ids |-> {}, submitted |-> {}]

NoRun == [head_block |-> 0, target_block |-> 0, head_sub_id |-> 0]
NoSync == [caller |-> None, head_block |-> 0, head_sub_id |-> 0,
           batches |-> <<>>, batch |-> 0, attempts |-> 0, delay |-> 0,
           subscriptions |-> <<>>]

\* the listener before setup(), on a chain that does not move
ListenerIdle ==
    /\ head = StartHead
    /\ subs = <<>>
    /\ advances = 0
    /\ l_pc = "init"
    /\ shutdown = FALSE
    /\ last_block = 0
    /\ last_subscription_id = 0
    /\ run = NoRun
    /\ sync = NoSync
    /\ last_read = NoRead
    /\ seen_head = 0
    /\ resync_at = 0
    /\ fetched = NoBatch
    /\ covered = {}
    /\ submitted = <<>>
    /\ tracked = <<>>

---------------------------------------------------------------------------
(* get_batches *)

NotCalled == [called |-> FALSE, batches |-> <<>>]

\* get_batches before any call
BatchesIdle ==
    /\ gb_args = <<0, 0, 1>>
    /\ gb_out = NotCalled

\* len(range(a, b, step)) for step >= 1
RangeLen(a, b, step) == IF b > a THEN (b - a + step - 1) \div step ELSE 0

get_batchesOverlapping(start, end, batch_size) ==
    IF start = end THEN <<<<start, start + 1>>>>
    ELSE IF end - start + 1 <= batch_size THEN <<<<start, end + 1>>>>
    ELSE [k \in 1..RangeLen(start, end + 1, batch_size) |->
            LET i == start + (k - 1) * batch_size
            IN <<i, Min(i + batch_size, end) + 1>>]

\* get_batches(start, end, batch_size), batch_size >= 1: the list of (lo, hi)
get_batches(start, end, batch_size) ==
    IF start = end THEN <<<<start, start + 1>>>>
    ELSE IF end - start + 1 <= batch_size THEN <<<<start, end + 1>>>>
    ELSE [k \in 1..RangeLen(start, end + 1, batch_size) |->
            LET i == start + (k - 1) * batch_size
            IN <<i, Min(i + batch_size - 1, end) + 1>>]

\* a call of get_batches on the arguments drawn in InitBatches
CallGetBatches ==
    /\ ~gb_out.called
    /\ gb_out' = [called |-> TRUE,
                  batches |-> get_batches(gb_args[1], gb_args[2], gb_args[3])]
    /\ UNCHANGED <<gb_args, orchVars, resVars, chainVars, listenerVars>>

InitBatches ==
    /\ gb_args \in (0..MaxId) \X (0..MaxId) \X (1..MaxBatchSize)
    /\ gb_out = NotCalled
    /\ ports = {}
    /\ OrchIdle
    /\ ResourcesIdle
    /\ ListenerIdle

NextBatches == CallGetBatches

SpecBatches == InitBatches /\ [][NextBatches]_vars

\* the IDs a half-open batch (lo, hi) covers
BatchIds(b) == b[1]..(b[2] - 1)

\* C5: for start <= end and batch_size >= 1, get_batches returns a non-empty
\* list of half-open intervals (lo, hi) with lo < hi, the first lo = start,
\* each hi = the next lo, the last hi = end + 1, each of at most batch_size
\* IDs; the intervals are pairwise disjoint and cover exactly start..end.
C5_BatchesPartition ==
    /\ get_batches(1, 250, 200) = <<<<1, 201>>, <<201, 251>>>>
    /\ (gb_out.called /\ gb_args[1] <= gb_args[2]) =>
        LET b == gb_out.batches
            n == Len(gb_out.batches)
        IN /\ n >= 1
           /\ \A k \in 1..n : /\ b[k][1] < b[k][2]
                               /\ b[k][2] - b[k][1] <= gb_args[3]
           /\ b[1][1] = gb_args[1]
           /\ \A k \in 1..(n - 1) : b[k][2] = b[k + 1][1]
           /\ b[n][2] = gb_args[2] + 1
           /\ UNION {BatchIds(b[k]) : k \in 1..n} = gb_args[1]..gb_args[2]
           /\ \A j, k \in 1..n :
                 j # k => BatchIds(b[j]) \cap BatchIds(b[k]) = {}

C5_Witness ==
    /\ gb_out.called
    /\ gb_args = <<1, 6, 4>>
    /\ gb_out.batches = <<<<1, 5>>, <<5, 7>>>>

---------------------------------------------------------------------------
(* Chain reads *)

HeadSubscriptionIdLatest(block) == Len(subs)

\* Coordinator.get_head_subscription_id(block): the highest subscription ID
\* at `block`
HeadSubscriptionId(block) ==
    Cardinality({i \in 1..Len(subs) : subs[i].created <= block})

\* Reader.readSubscriptionBatch(start_id, end_id) at `block`: the
\* subscriptions start_id .. end_id - 1 (none for an empty or inverted range)
ReadSubscriptionBatch(start_id, end_id, block) ==
    [k \in 1..(IF end_id > start_id THEN end_id - start_id ELSE 0) |->
        subs[start_id + k - 1]]

ChainRead(call, block) == [call |-> call, block |-> block]

\* the positions inside _snapshot_sync
SnapshotPcs == {"snapshot_head_sub", "batch_read", "batch_counts",
                "batch_backoff", "batch_sleep"}

\* The environment: the head advances and new subscriptions are created in
\* the new blocks. The listener sees the head only when it calls
\* get_head_block_number and reads everything else at blocks at or below a
\* head it has seen, so under setup() and run_forever() it is enough to let
\* the chain move right before those calls; under a direct call of
\* _snapshot_sync the chain moves at any point.
ChainAdvance(step, new) ==
    /\ \/ l_pc \in {"init", "run_loop", "sync_returned"}
       \/ l_pc \in SnapshotPcs /\ sync.caller \in {"first", "second"}
    /\ advances < MaxAdvances
    /\ Len(subs) + Len(new) <= MaxSubs
    /\ head' = head + step
    /\ subs' = subs \o new
    /\ advances' = advances + 1
    /\ UNCHANGED listenerVars

\* the environment: the supervisor sets the shutdown flag
Shutdown ==
    /\ ~shutdown
    /\ l_pc \notin {"stopped", "crashed"}
    /\ shutdown' = TRUE
    /\ UNCHANGED <<chainVars, seen_head, resync_at, l_pc, last_block,
                   last_subscription_id, run, sync, last_read, fetched,
                   covered, submitted, tracked>>

---------------------------------------------------------------------------
(* ChainListener._sync_batch_subscriptions_creation *)

\* subscriptions = [Subscription(start_id + i, ...) for i, sub in enumerate(...)]
Subscriptions(start_id, data) ==
    [i \in 1..Len(data) |->
        [id |-> start_id + i - 1,
         last_interval |-> data[i].last_interval,
         accepted |-> data[i].accepted]]

\* filtered_ids: the subscriptions on their last interval, in list order
FilteredIds(subscriptions) ==
    SelectSeq(subscriptions, LAMBDA sub : sub.last_interval)

RECURSIVE GuardianCalls(_)
\* for i in range(len(filtered_ids)): the subscription with that id is run
\* through Guardian; the calls in order, each with Guardian's verdict
GuardianCalls(filtered) ==
    IF filtered = <<>> THEN <<>>
    ELSE <<[id |-> Head(filtered).id,
            verdict |-> IF Head(filtered).accepted THEN "accepted"
                        ELSE "GuardianError"]>>
         \o GuardianCalls(Tail(filtered))

RECURSIVE TrackedIdsStopAtError(_)
TrackedIdsStopAtError(calls) ==
    IF calls = <<>> \/ Head(calls).verdict = "GuardianError" THEN <<>>
    ELSE <<Head(calls).id>> \o TrackedIdsStopAtError(Tail(calls))

RECURSIVE TrackedIdsNewestFirst(_)
TrackedIdsNewestFirst(calls) ==
    IF calls = <<>> THEN <<>>
    ELSE TrackedIdsNewestFirst(Tail(calls))
         \o (IF Head(calls).verdict = "GuardianError" THEN <<>>
             ELSE <<Head(calls).id>>)

RECURSIVE TrackedIds(_)
\* create_task(self._processor.track(msg)) unless Guardian returned a
\* GuardianError; either way the loop goes on with the next filtered id
TrackedIds(calls) ==
    IF calls = <<>> THEN <<>>
    ELSE (IF Head(calls).verdict = "GuardianError" THEN <<>>
          ELSE <<Head(calls).id>>)
         \o TrackedIds(Tail(calls))

---------------------------------------------------------------------------
(* ChainListener._snapshot_sync, setup, run_forever *)

AfterSnapshotIdFromCount ==
    /\ l_pc' = (IF sync.caller \in {"setup", "run"} THEN "run_loop"
                ELSE "sync_returned")
    /\ IF sync.caller = "run"
       THEN /\ last_block' = run.target_block
            /\ last_subscription_id' = run.head_sub_id - last_subscription_id
       ELSE UNCHANGED <<last_block, last_subscription_id>>

\* What follows the return of _snapshot_sync: setup() returns and run_forever
\* starts, or run_forever updates its two pointers and loops; a direct call
\* of _snapshot_sync has returned
AfterSnapshot ==
    /\ l_pc' = (IF sync.caller \in {"setup", "run"} THEN "run_loop"
                ELSE "sync_returned")
    /\ IF sync.caller = "run"
       THEN /\ last_block' = run.target_block
            /\ last_subscription_id' = run.head_sub_id
       ELSE UNCHANGED <<last_block, last_subscription_id>>

SetupUntrailed(ok) ==
    /\ l_pc = "init"
    /\ last_read' = (ChainRead("get_head_block_number", head))
    /\ IF ok
       THEN /\ seen_head' = head
            /\ last_block' = head
            /\ last_subscription_id' = 0
            /\ sync' = [NoSync EXCEPT !.caller = "setup",
                                      !.head_block = head]
            /\ l_pc' = "snapshot_head_sub"
       ELSE /\ l_pc' = "crashed"
            /\ UNCHANGED <<seen_head, last_block, last_subscription_id, sync>>
    /\ UNCHANGED <<chainVars, shutdown, resync_at, run, fetched, covered,
                   submitted, tracked>>

\* setup(): the head block is read, both pointers are set, _snapshot_sync is
\* entered; a failing RPC call raises out of setup()
Setup(ok) ==
    /\ l_pc = "init"
    /\ last_read' = (ChainRead("get_head_block_number", head))
    /\ IF ok
       THEN /\ seen_head' = head
            /\ last_block' = head - Trail
            /\ last_subscription_id' = 0
            /\ sync' = [NoSync EXCEPT !.caller = "setup",
                                      !.head_block = head - Trail]
            /\ l_pc' = "snapshot_head_sub"
       ELSE /\ l_pc' = "crashed"
            /\ UNCHANGED <<seen_head, last_block, last_subscription_id, sync>>
    /\ UNCHANGED <<chainVars, shutdown, resync_at, run, fetched, covered,
                   submitted, tracked>>

\* _snapshot_sync up to its loop: the head subscription id at head_block, the
\* batches, and the return when there is nothing to sync
SnapshotHeadSub(ok) ==
    /\ l_pc = "snapshot_head_sub"
    /\ last_read' = (ChainRead("get_head_subscription_id", sync.head_block))
    /\ IF ~ok
       THEN /\ l_pc' = "crashed"
            /\ UNCHANGED <<last_block, last_subscription_id, sync>>
       ELSE LET head_sub_id == HeadSubscriptionId(sync.head_block)
                start == last_subscription_id + 1
                batches == get_batches(start, head_sub_id, BatchSize)
            IN IF Len(batches) = 1 /\ batches[1][1] = batches[1][2]
               THEN /\ AfterSnapshot
                    /\ sync' = [sync EXCEPT !.head_sub_id = head_sub_id,
                                            !.batches = batches]
               ELSE /\ sync' = [sync EXCEPT !.head_sub_id = head_sub_id,
                                            !.batches = batches,
                                            !.batch = 1,
                                            !.attempts = 0,
                                            !.delay = SNAPSHOT_SYNC_BATCH_SLEEP_S]
                    /\ l_pc' = "batch_read"
                    /\ UNCHANGED <<last_block, last_subscription_id>>
    /\ UNCHANGED <<chainVars, shutdown, seen_head, resync_at, run, fetched,
                   covered, submitted, tracked>>

\* a failed attempt of the batch: the retry wrapper sleeps `delay`
BatchFailed ==
    /\ sync' = [sync EXCEPT !.attempts = @ + 1, !.subscriptions = <<>>]
    /\ l_pc' = "batch_backoff"

BatchReadAtNewHead(ok) ==
    /\ l_pc = "batch_read"
    /\ ok \/ sync.attempts < MaxRetries
    /\ last_read' = (ChainRead("readSubscriptionBatch", head - Trail))
    /\ IF ok
       THEN LET batch == sync.batches[sync.batch]
                data == ReadSubscriptionBatch(batch[1], batch[2],
                                              head - Trail)
            IN /\ sync' = [sync EXCEPT
                              !.subscriptions = Subscriptions(batch[1], data)]
               /\ l_pc' = "batch_counts"
       ELSE BatchFailed
    /\ UNCHANGED <<chainVars, shutdown, seen_head, resync_at, last_block,
                   last_subscription_id, run, fetched, covered, submitted,
                   tracked>>

\* readSubscriptionBatch(batch[0], batch[1]) at head_block
BatchRead(ok) ==
    /\ l_pc = "batch_read"
    /\ ok \/ sync.attempts < MaxRetries
    /\ last_read' = (ChainRead("readSubscriptionBatch", sync.head_block))
    /\ IF ok
       THEN LET batch == sync.batches[sync.batch]
                data == ReadSubscriptionBatch(batch[1], batch[2],
                                              sync.head_block)
            IN /\ sync' = [sync EXCEPT
                              !.subscriptions = Subscriptions(batch[1], data)]
               /\ l_pc' = "batch_counts"
       ELSE BatchFailed
    /\ UNCHANGED <<chainVars, shutdown, seen_head, resync_at, last_block,
                   last_subscription_id, run, fetched, covered, submitted,
                   tracked>>

\* A batch sync that runs the Guardian loop before it reads the redundancy
\* counts
BatchCountsProcessFirst(ok) ==
    /\ l_pc = "batch_counts"
    /\ ok \/ sync.attempts < MaxRetries
    /\ last_read' = (ChainRead("readRedundancyCountBatch", sync.head_block))
    /\ LET calls == GuardianCalls(FilteredIds(sync.subscriptions))
       IN /\ submitted' = submitted \o calls
          /\ tracked' = tracked \o TrackedIds(calls)
          /\ IF ok
             THEN /\ covered' = covered \cup {sync.subscriptions[i].id :
                                                i \in 1..Len(sync.subscriptions)}
                  /\ fetched' = [batch |-> sync.batches[sync.batch],
                                 block |-> sync.head_block,
                                 ids |-> {sync.subscriptions[i].id :
                                            i \in 1..Len(sync.subscriptions)},
                                 submitted |-> {calls[i].id :
                                                  i \in 1..Len(calls)}]
                  /\ l_pc' = "batch_sleep"
                  /\ UNCHANGED sync
             ELSE /\ BatchFailed
                  /\ UNCHANGED <<fetched, covered>>
    /\ UNCHANGED <<chainVars, shutdown, seen_head, resync_at, last_block,
                   last_subscription_id, run>>

\* readRedundancyCountBatch(filtered_ids, filtered_intervals) at head_block,
\* then the loop over filtered_ids: Guardian and ChainProcessor.track
BatchCounts(ok) ==
    /\ l_pc = "batch_counts"
    /\ ok \/ sync.attempts < MaxRetries
    /\ last_read' = (ChainRead("readRedundancyCountBatch", sync.head_block))
    /\ IF ok
       THEN LET calls == GuardianCalls(FilteredIds(sync.subscriptions))
            IN /\ submitted' = submitted \o calls
               /\ tracked' = tracked \o TrackedIds(calls)
               /\ covered' = covered \cup {sync.subscriptions[i].id :
                                              i \in 1..Len(sync.subscriptions)}
               /\ fetched' = [batch |-> sync.batches[sync.batch],
                              block |-> sync.head_block,
                              ids |-> {sync.subscriptions[i].id :
                                         i \in 1..Len(sync.subscriptions)},
                              submitted |-> {calls[i].id :
                                               i \in 1..Len(calls)}]
               /\ l_pc' = "batch_sleep"
               /\ UNCHANGED sync
       ELSE /\ BatchFailed
            /\ UNCHANGED <<fetched, covered, submitted, tracked>>
    /\ UNCHANGED <<chainVars, shutdown, seen_head, resync_at, last_block,
                   last_subscription_id, run>>

BatchBackoffConstant ==
    /\ l_pc = "batch_backoff"
    /\ l_pc' = "batch_read"
    /\ UNCHANGED <<chainVars, shutdown, seen_head, resync_at, last_block,
                   last_subscription_id, run, sync, last_read, fetched,
                   covered, submitted, tracked>>

\* the retry wrapper's sleep is over: the delay doubles, the batch is retried
BatchBackoff ==
    /\ l_pc = "batch_backoff"
    /\ sync' = [sync EXCEPT !.delay = @ * 2]
    /\ l_pc' = "batch_read"
    /\ UNCHANGED <<chainVars, shutdown, seen_head, resync_at, last_block,
                   last_subscription_id, run, last_read, fetched, covered,
                   submitted, tracked>>

\* asyncio.sleep(self._snapshot_sync_sleep) after a batch is over: the next
\* batch, or the return of _snapshot_sync
BatchSleep ==
    /\ l_pc = "batch_sleep"
    /\ IF sync.batch < Len(sync.batches)
       THEN /\ sync' = [sync EXCEPT !.batch = @ + 1,
                                    !.attempts = 0,
                                    !.delay = SNAPSHOT_SYNC_BATCH_SLEEP_S,
                                    !.subscriptions = <<>>]
            /\ l_pc' = "batch_read"
            /\ UNCHANGED <<last_block, last_subscription_id>>
       ELSE /\ AfterSnapshot
            /\ UNCHANGED sync
    /\ UNCHANGED <<chainVars, shutdown, seen_head, resync_at, run, last_read,
                   fetched, covered, submitted, tracked>>

LoopConditionAlways == TRUE

\* `while not self._shutdown`
LoopCondition == ~shutdown

\* run_forever: `while not self._shutdown`, the head block, and the choice
\* between syncing and sleeping
RunLoop(ok) ==
    /\ l_pc = "run_loop"
    /\ IF ~LoopCondition
       THEN /\ l_pc' = "stopped"
            /\ UNCHANGED <<run, last_read, seen_head>>
       ELSE /\ last_read' = (ChainRead("get_head_block_number", head))
            /\ seen_head' = (IF ok THEN head ELSE seen_head)
            /\ IF ~ok
               THEN /\ l_pc' = "crashed"
                    /\ UNCHANGED run
               ELSE LET head_block == head - Trail
                        num_blocks_to_sync ==
                            Min(head_block - last_block, BlockStepCap)
                    IN IF last_block < head_block
                       THEN /\ run' = [head_block |-> head_block,
                                       target_block |->
                                           last_block + num_blocks_to_sync,
                                       head_sub_id |-> 0]
                            /\ l_pc' = "run_head_sub"
                       ELSE /\ l_pc' = "run_sleep"
                            /\ UNCHANGED run
    /\ UNCHANGED <<chainVars, shutdown, resync_at, last_block,
                   last_subscription_id, sync, fetched, covered, submitted,
                   tracked>>

\* A run_forever that reads the head subscription ID at head_block and syncs
\* at target_block
RunHeadSubSwapped(ok) ==
    /\ l_pc = "run_head_sub"
    /\ last_read' = (ChainRead("get_head_subscription_id", run.head_block))
    /\ IF ok
       THEN /\ run' = [run EXCEPT
                          !.head_sub_id = HeadSubscriptionId(run.head_block)]
            /\ sync' = [NoSync EXCEPT !.caller = "run",
                                      !.head_block = run.target_block]
            /\ l_pc' = "snapshot_head_sub"
       ELSE /\ l_pc' = "crashed"
            /\ UNCHANGED <<run, sync>>
    /\ UNCHANGED <<chainVars, shutdown, seen_head, resync_at, last_block,
                   last_subscription_id, fetched, covered, submitted,
                   tracked>>

\* run_forever: get_head_subscription_id(target_block), then
\* _snapshot_sync(head_block) is entered
RunHeadSub(ok) ==
    /\ l_pc = "run_head_sub"
    /\ last_read' = (ChainRead("get_head_subscription_id", run.target_block))
    /\ IF ok
       THEN /\ run' = [run EXCEPT
                          !.head_sub_id = HeadSubscriptionId(run.target_block)]
            /\ sync' = [NoSync EXCEPT !.caller = "run",
                                      !.head_block = run.head_block]
            /\ l_pc' = "snapshot_head_sub"
       ELSE /\ l_pc' = "crashed"
            /\ UNCHANGED <<run, sync>>
    /\ UNCHANGED <<chainVars, shutdown, seen_head, resync_at, last_block,
                   last_subscription_id, fetched, covered, submitted,
                   tracked>>

\* run_forever: sleep(0.5) is over
RunSleep ==
    /\ l_pc = "run_sleep"
    /\ l_pc' = "run_loop"
    /\ UNCHANGED <<chainVars, shutdown, seen_head, resync_at, last_block,
                   last_subscription_id, run, sync, last_read, fetched,
                   covered, submitted, tracked>>

InitListener ==
    /\ head = StartHead
    /\ subs \in UNION {[1..n -> NewSubscriptions(0)] : n \in 0..MaxSubs}
    /\ advances = 0
    /\ l_pc = "init"
    /\ shutdown = FALSE
    /\ last_block = 0
    /\ last_subscription_id = 0
    /\ run = NoRun
    /\ sync = NoSync
    /\ last_read = NoRead
    /\ seen_head = 0
    /\ resync_at = 0
    /\ fetched = NoBatch
    /\ covered = {}
    /\ submitted = <<>>
    /\ tracked = <<>>
    /\ ports = {}
    /\ OrchIdle
    /\ ResourcesIdle
    /\ BatchesIdle

NextListener ==
    \/ \E ok \in BOOLEAN : Setup(ok) /\ UNCHANGED <<orchVars, resVars, batchVars>>
    \/ \E ok \in BOOLEAN : SnapshotHeadSub(ok) /\ UNCHANGED <<orchVars, resVars, batchVars>>
    \/ \E ok \in BOOLEAN : BatchRead(ok) /\ UNCHANGED <<orchVars, resVars, batchVars>>
    \/ \E ok \in BOOLEAN : BatchCounts(ok) /\ UNCHANGED <<orchVars, resVars, batchVars>>
    \/ BatchBackoff /\ UNCHANGED <<orchVars, resVars, batchVars>>
    \/ BatchSleep /\ UNCHANGED <<orchVars, resVars, batchVars>>
    \/ \E ok \in BOOLEAN : RunLoop(ok) /\ UNCHANGED <<orchVars, resVars, batchVars>>
    \/ \E ok \in BOOLEAN : RunHeadSub(ok) /\ UNCHANGED <<orchVars, resVars, batchVars>>
    \/ RunSleep /\ UNCHANGED <<orchVars, resVars, batchVars>>
    \/ \E step \in AdvanceSteps :
          \E n \in 0..1 :
             \E new \in [1..n -> UNION {NewSubscriptions(b) :
                                           b \in NewBlocks(head, step)}] :
                ChainAdvance(step, new) /\ UNCHANGED <<orchVars, resVars, batchVars>>
    \/ Shutdown /\ UNCHANGED <<orchVars, resVars, batchVars>>

SpecListener == InitListener /\ [][NextListener]_vars

----------------------------------------------------------------------------
(* Specification of setup() and run_forever() catching up: the head block   *)
(* and head subscription ID reads succeed, a batch read fails at most       *)
(* MaxRetries times in a row, shutdown is never set, and the head stops     *)
(* after MaxAdvances advances. The event loop resumes the listener whenever *)
(* its awaited call or sleep is over.                                       *)

\* the listener's own steps
CatchUpStep ==
    \/ Setup(TRUE) /\ UNCHANGED <<orchVars, resVars, batchVars>>
    \/ SnapshotHeadSub(TRUE) /\ UNCHANGED <<orchVars, resVars, batchVars>>
    \/ \E ok \in BOOLEAN : BatchRead(ok) /\ UNCHANGED <<orchVars, resVars, batchVars>>
    \/ \E ok \in BOOLEAN : BatchCounts(ok) /\ UNCHANGED <<orchVars, resVars, batchVars>>
    \/ BatchBackoff /\ UNCHANGED <<orchVars, resVars, batchVars>>
    \/ BatchSleep /\ UNCHANGED <<orchVars, resVars, batchVars>>
    \/ RunLoop(TRUE) /\ UNCHANGED <<orchVars, resVars, batchVars>>
    \/ RunHeadSub(TRUE) /\ UNCHANGED <<orchVars, resVars, batchVars>>
    \/ RunSleep /\ UNCHANGED <<orchVars, resVars, batchVars>>

NextCatchUp ==
    \/ CatchUpStep
    \/ \E step \in AdvanceSteps :
          \E n \in 0..1 :
             \E new \in [1..n -> UNION {NewSubscriptions(b) :
                                           b \in NewBlocks(head, step)}] :
                ChainAdvance(step, new) /\ UNCHANGED <<orchVars, resVars, batchVars>>

SpecCatchUp ==
    InitListener /\ [][NextCatchUp]_vars /\ WF_vars(CatchUpStep)

---------------------------------------------------------------------------
(* Specification of _snapshot_sync(h) called twice with the same h *)

\* _snapshot_sync(h) is called again after it returned, with the same h
SnapshotSyncAgain ==
    /\ l_pc = "sync_returned"
    /\ sync.caller = "first"
    /\ resync_at' = Len(tracked)
    /\ sync' = [NoSync EXCEPT !.caller = "second",
                              !.head_block = sync.head_block]
    /\ l_pc' = "snapshot_head_sub"
    /\ UNCHANGED <<chainVars, shutdown, seen_head, last_block,
                   last_subscription_id, run, last_read, fetched, covered,
                   submitted, tracked>>

\* the first call of _snapshot_sync(h) is entered, h = head -
\* trail_head_blocks, with _last_subscription_id whatever an earlier read of
\* the head subscription id left there: at or below the head subscription id
\* at h, or above it when the chain was reorganized since
InitResync ==
    /\ head = StartHead
    /\ subs \in UNION {[1..n -> NewSubscriptions(0)] : n \in 0..MaxSubs}
    /\ advances = 0
    /\ l_pc = "snapshot_head_sub"
    /\ shutdown = FALSE
    /\ last_block = StartHead - Trail
    /\ last_subscription_id \in 0..MaxSubs
    /\ run = NoRun
    /\ sync = [NoSync EXCEPT !.caller = "first",
                             !.head_block = StartHead - Trail]
    /\ last_read = ChainRead("get_head_block_number", StartHead)
    /\ seen_head = StartHead
    /\ resync_at = 0
    /\ fetched = NoBatch
    /\ covered = {}
    /\ submitted = <<>>
    /\ tracked = <<>>
    /\ ports = {}
    /\ OrchIdle
    /\ ResourcesIdle
    /\ BatchesIdle

NextResync ==
    \/ \E ok \in BOOLEAN : SnapshotHeadSub(ok) /\ UNCHANGED <<orchVars, resVars, batchVars>>
    \/ \E ok \in BOOLEAN : BatchRead(ok) /\ UNCHANGED <<orchVars, resVars, batchVars>>
    \/ \E ok \in BOOLEAN : BatchCounts(ok) /\ UNCHANGED <<orchVars, resVars, batchVars>>
    \/ BatchBackoff /\ UNCHANGED <<orchVars, resVars, batchVars>>
    \/ BatchSleep /\ UNCHANGED <<orchVars, resVars, batchVars>>
    \/ SnapshotSyncAgain /\ UNCHANGED <<orchVars, resVars, batchVars>>
    \/ \E step \in AdvanceSteps :
          \E n \in 0..1 :
             \E new \in [1..n -> UNION {NewSubscriptions(b) :
                                           b \in NewBlocks(head, step)}] :
                ChainAdvance(step, new) /\ UNCHANGED <<orchVars, resVars, batchVars>>

SpecResync == InitResync /\ [][NextResync]_vars

---------------------------------------------------------------------------
(* Specification of one orchestrator call *)

InitOrch ==
    /\ ports \in SUBSET ContainerIds
    /\ OrchIdle
    /\ ResourcesIdle
    /\ BatchesIdle
    /\ ListenerIdle

NextOrch ==
    \/ \E ji \in ChainJobInputs, cs \in ContainerLists, rp \in {PyTrue, PyFalse} :
          process_chain_processor_job(ji, cs, rp) /\ UNCHANGED <<resVars, batchVars, chainVars, listenerVars>>
    \/ \E m \in OffchainMessages :
          process_offchain_job(m) /\ UNCHANGED <<resVars, batchVars, chainVars, listenerVars>>
    \/ \E r \in Responses : CallContainer(r) /\ UNCHANGED <<resVars, batchVars, chainVars, listenerVars>>
    \/ \E m \in OffchainMessages :
          process_streaming_job(m) /\ UNCHANGED <<resVars, batchVars, chainVars, listenerVars>>
    \/ \E r \in StreamResponses : StreamPost(r) /\ UNCHANGED <<resVars, batchVars, chainVars, listenerVars>>
    \/ \E c \in ChunkSet : StreamChunk(c) /\ UNCHANGED <<resVars, batchVars, chainVars, listenerVars>>
    \/ StreamReadError /\ UNCHANGED <<resVars, batchVars, chainVars, listenerVars>>
    \/ StreamEnd /\ UNCHANGED <<resVars, batchVars, chainVars, listenerVars>>
    \/ ConsumerClose /\ UNCHANGED <<resVars, batchVars, chainVars, listenerVars>>

SpecOrch == InitOrch /\ [][NextOrch]_vars

---------------------------------------------------------------------------
(* Properties of the container pipeline and of the streaming job *)

IsPipeline ==
    job.entry \in {"process_chain_processor_job", "process_offchain_job"}
IsStreaming == job.entry = "process_streaming_job"

StoreOps(op) == {i \in 1..Len(store) : store[i].op = op}

\* C1: a pipeline run that marks the job successful returns one Success per
\* container, entry i for containers[i], and set_success is called exactly
\* once, with that list, as the last DataStore call, after every container
\* was posted to and answered.
C1_SuccessResults ==
    (IsPipeline /\ StoreOps("set_success") # {}) =>
        /\ pc = "returned"
        /\ Len(ret) = Len(job.containers)
        /\ \A i \in 1..Len(ret) :
              /\ ret[i].kind = "Success"
              /\ ret[i].container = job.containers[i]
        /\ StoreOps("set_success") = {Len(store)}
        /\ StoreOps("set_failed") = {}
        /\ store[Len(store)] = SetSuccess(job.message, ret)
        /\ Len(sent) = Len(job.containers)
        /\ Len(received) = Len(job.containers)

C1_Witness ==
    /\ IsPipeline
    /\ pc = "returned"
    /\ StoreOps("set_success") # {}
    /\ Len(job.containers) = 3
    /\ Len(ret) = 3

\* C2: in a pipeline run containers are posted to in list order, container
\* i+1 only after container i produced a Success, none after the first Error;
\* a failed run returns at most len(containers) results, every one before the
\* last a Success and the last an Error for the failing container.
C2_FailureAborts ==
    IsPipeline =>
        /\ \A k \in 1..Len(sent) :
              /\ sent[k].position = k - 1
              /\ sent[k].container = job.containers[k]
              /\ k >= 2 => /\ Len(results) >= k - 1
                           /\ results[k - 1].kind = "Success"
        /\ \A k \in 1..Len(results) :
              results[k].kind = "Error" => Len(sent) = k /\ Len(results) = k
        /\ (pc = "returned" /\ StoreOps("set_failed") # {}) =>
              /\ Len(ret) >= 1
              /\ Len(ret) <= Len(job.containers)
              /\ \A i \in 1..(Len(ret) - 1) : ret[i].kind = "Success"
              /\ ret[Len(ret)].kind = "Error"
              /\ ret[Len(ret)].container = job.containers[Len(ret)]
              /\ Len(sent) = Len(ret)

C2_Witness ==
    /\ IsPipeline
    /\ pc = "returned"
    /\ StoreOps("set_failed") # {}
    /\ Len(job.containers) = 3
    /\ Len(ret) = 2
    /\ ret[1].kind = "Success"
    /\ ret[2].kind = "Error"

\* C6: the ContainerInput posted at position i of n has the job's destination
\* if i = n-1 and OFFCHAIN otherwise, and the job's source if i = 0 and
\* OFFCHAIN otherwise; an off-chain job has source and destination OFFCHAIN;
\* the one request of a streaming job has destination STREAM.
C6_SourceDestination ==
    /\ IsPipeline =>
          \A k \in 1..Len(sent) :
             /\ sent[k].body.destination =
                   (IF sent[k].position = Len(job.containers) - 1
                    THEN job.job_input.destination ELSE OFFCHAIN)
             /\ sent[k].body.source =
                   (IF sent[k].position = 0
                    THEN job.job_input.source ELSE OFFCHAIN)
    /\ job.entry = "process_offchain_job" =>
          /\ job.job_input.source = OFFCHAIN
          /\ job.job_input.destination = OFFCHAIN
    /\ IsStreaming =>
          /\ Len(sent) <= 1
          /\ \A k \in 1..Len(sent) : sent[k].body.destination = STREAM

C6_Witness ==
    /\ job.entry = "process_chain_processor_job"
    /\ job.job_input.destination = ONCHAIN
    /\ Len(job.containers) = 3
    /\ Len(sent) = 3
    /\ sent[1].body.source = ONCHAIN
    /\ sent[2].body.destination = OFFCHAIN
    /\ sent[3].body.destination = ONCHAIN

\* C7 as stated: the data posted at position i >= 1 is the output of
\* container i-1, and every posted requires_proof equals the job's
\* requires_proof.
C7_Original ==
    IsPipeline =>
        \A k \in 1..Len(sent) :
           /\ k >= 2 => sent[k].body.data = results[k - 1].payload
           /\ sent[k].body.requires_proof = job.requires_proof

\* C7 (amended): the data posted at position i >= 1 is the output of
\* container i-1, and every posted requires_proof is True when the job's
\* requires_proof is True and False when it is False or None.
C7_Threading ==
    IsPipeline =>
        \A k \in 1..Len(sent) :
           /\ k >= 2 => sent[k].body.data = results[k - 1].payload
           /\ job.requires_proof = PyTrue =>
                 sent[k].body.requires_proof = PyTrue
           /\ job.requires_proof \in {PyFalse, None} =>
                 sent[k].body.requires_proof = PyFalse

C7_Witness ==
    /\ IsPipeline
    /\ job.requires_proof = None
    /\ Len(sent) = 3
    /\ sent[2].body.data = "o1"
    /\ sent[3].body.data = "o2"
    /\ sent[3].body.requires_proof = PyFalse

\* C8: a response with HTTP status >= 400 is fatal to a pipeline run whatever
\* its body: its result is an Error, the job is marked failed and no later
\* container is posted to.
C8_HttpErrorFatal ==
    IsPipeline =>
        \A k \in 1..Len(received) :
           received[k].status >= 400 =>
              /\ results[k].kind = "Error"
              /\ StoreOps("set_failed") # {}
              /\ Len(sent) = k

C10_StreamErrorPropagates ==
    (IsStreaming /\ StoreOps("set_failed") # {}) =>
        /\ \A i \in StoreOps("set_failed") :
              /\ Len(store[i].results) = 1
              /\ store[i].results[1].kind = "Error"
              /\ store[i].results[1].container = job.containers[1]
        /\ \E i \in 1..Len(store) :
              store[i] = TrackContainerStatus(job.containers[1], "failed")
        /\ consumer_end = "raised"

\* the DataStore calls of a pipeline run up to its terminal call: set_running,
\* then track_container_status(success) for each of the first k containers,
\* one per container posted to and none for a later one
StorePrefix(k) ==
    /\ Len(store) >= 1 + k
    /\ store[1] = SetRunning(job.message)
    /\ \A i \in 1..k :
          store[1 + i] = TrackContainerStatus(job.containers[i], "success")
    /\ Cardinality(StoreOps("track_container_status")) = Len(sent)

TerminalOps == StoreOps("set_success") \cup StoreOps("set_failed")

\* C25: a _run_job call with a non-empty container list whose ports all
\* resolve never raises and never records more than one terminal status;
\* when it has returned it has recorded exactly one, set_success or
\* set_failed, after set_running and as the last job status, and set_success
\* only with one Success per container.
C25_OneTerminalStatus ==
    (IsPipeline /\ job.containers # <<>>
     /\ \A i \in 1..Len(job.containers) : job.containers[i] \in ports) =>
        /\ pc \in {"run_job", "returned"}
        /\ store[1] = SetRunning(job.message)
        /\ StoreOps("set_running") = {1}
        /\ Cardinality(TerminalOps) = (IF pc = "returned" THEN 1 ELSE 0)
        /\ StoreOps("set_success") # {} =>
              /\ Len(results) = Len(job.containers)
              /\ \A i \in 1..Len(results) : results[i].kind = "Success"
        /\ StoreOps("set_failed") # {} =>
              results[Len(results)].kind = "Error"

\* the first of three containers, all with a port, failed
C25_Witness ==
    /\ IsPipeline
    /\ pc = "returned"
    /\ ports = ContainerIds
    /\ Len(job.containers) = 3
    /\ Len(sent) = 1
    /\ Cardinality(StoreOps("set_failed")) = 1

\* C18: a pipeline job with an empty container list raises to its caller and
\* no set_success is recorded for it.
C18_EmptyFailsFast ==
    (IsPipeline /\ job.containers = <<>>) =>
        /\ pc = "raised"
        /\ StoreOps("set_success") = {}

---------------------------------------------------------------------------
(* Specification of one collect_service_resources call *)

InitResources ==
    /\ configs \in ConfigLists
    /\ tasks = NoTasks
    /\ completed = <<>>
    /\ res_pc = "idle"
    /\ res_ret = NoTasks
    /\ ports = {}
    /\ OrchIdle
    /\ BatchesIdle
    /\ ListenerIdle

NextResources ==
    \/ \E m \in ModelIds :
          collect_service_resources(m) /\ UNCHANGED <<orchVars, batchVars, chainVars, listenerVars>>
    \/ \E c \in ConfigIds : FetchGet(c) /\ UNCHANGED <<orchVars, batchVars, chainVars, listenerVars>>
    \/ \E c \in ConfigIds, r \in Responses :
          FetchRespond(c, r) /\ UNCHANGED <<orchVars, batchVars, chainVars, listenerVars>>

SpecResources == InitResources /\ [][NextResources]_vars

\* the request of container c was answered with a body and a status that
\* raise_for_status lets through
Succeeded(c) ==
    /\ tasks[c].response.kind = "json"
    /\ tasks[c].response.status < 400

\* C11: every configured container gets its own fetch as soon as the call
\* starts, and whichever requests fail and whatever order they complete in,
\* the call returns once all are done, and the keys of the returned map are
\* exactly the containers whose request succeeded, each with its own body.
C11_ResourceMapKeys ==
    /\ res_pc # "idle" => DOMAIN tasks = {configs[i] : i \in 1..Len(configs)}
    /\ (res_pc = "gather") <=> (\E c \in DOMAIN tasks : tasks[c].state # "done")
    /\ res_pc = "returned" =>
          /\ DOMAIN res_ret = {c \in DOMAIN tasks : Succeeded(c)}
          /\ \A c \in DOMAIN res_ret : res_ret[c] = tasks[c].response.body

\* three requests in flight at once, the second one fails, and they complete
\* in another order than they were dispatched in
C11_Witness ==
    /\ res_pc = "returned"
    /\ configs = <<"A", "B", "C">>
    /\ completed = <<"C", "A", "B">>
    /\ tasks["B"].response.kind = "Exception"
    /\ DOMAIN res_ret = {"A", "C"}
    /\ res_ret["A"] # res_ret["C"]

---------------------------------------------------------------------------
(* Properties of the batch sync *)

\* the Guardian calls that did not return a GuardianError
AcceptedCalls == SelectSeq(submitted, LAMBDA c : c.verdict = "accepted")

\* C3: every subscription a batch read returned, on its last interval or not,
\* is submitted to Guardian, every subscription Guardian accepts is handed to
\* ChainProcessor.track, and after a cold-start setup() over N subscriptions
\* that Guardian all accepts ChainProcessor has received N submissions.
C3_EverySubscriptionSubmitted ==
    /\ fetched.ids \subseteq fetched.submitted
    /\ Len(tracked) = Len(AcceptedCalls)
    /\ (l_pc = "run_loop" /\ sync.caller = "setup"
        /\ \A i \in 1..HeadSubscriptionId(sync.head_block) : subs[i].accepted)
       => Len(tracked) = HeadSubscriptionId(sync.head_block)

\* C4: the IDs handed to ChainProcessor.track are, in order, exactly the IDs
\* of the Guardian calls that returned no GuardianError: a rejected
\* subscription is not handed over, and a rejection does not keep the accepted
\* subscriptions of the batch from being handed over.
C4_RejectionIsolated ==
    /\ Len(tracked) = Len(AcceptedCalls)
    /\ \A k \in 1..Len(tracked) : tracked[k] = AcceptedCalls[k].id
    /\ \A k \in 1..Len(submitted) :
          submitted[k].verdict = "GuardianError" =>
             \A j \in 1..Len(tracked) : tracked[j] # submitted[k].id

C4_Witness ==
    /\ fetched.batch = <<1, 3>>
    /\ submitted = <<[id |-> 1, verdict |-> "GuardianError"],
                     [id |-> 2, verdict |-> "accepted"]>>
    /\ tracked = <<2>>

---------------------------------------------------------------------------
(* Properties of setup, run_forever and _snapshot_sync *)

\* C12: on a chain whose head and whose head subscription id only grow, no
\* step of setup() and run_forever() lowers _last_block or
\* _last_subscription_id, and the steps inside _snapshot_sync leave
\* _last_subscription_id as it is.
C12_PointersMonotone ==
    [][/\ last_block' >= last_block
       /\ last_subscription_id' >= last_subscription_id
       /\ (l_pc \in SnapshotPcs /\ l_pc' \in SnapshotPcs)
             => last_subscription_id' = last_subscription_id]_vars

\* two iterations of run_forever have moved both pointers: the second one
\* found a subscription the first one could not see
C12_Witness ==
    /\ l_pc = "run_loop"
    /\ sync.caller = "run"
    /\ last_block = StartHead + 101 - Trail
    /\ last_subscription_id = 3
    /\ subs[3].created = last_block

\* a step of the listener task, not of its environment
ListenerStep == head' = head /\ shutdown' = shutdown

\* C13: a run_forever iteration that finds head - trail_head_blocks above
\* _last_block aims at _last_block + min(head - trail_head_blocks -
\* _last_block, 100) and, when its sync is over, has moved _last_block there:
\* by at least 1, by at most 100, not past head - trail_head_blocks; nothing
\* else moves _last_block after setup(). An iteration that finds head -
\* trail_head_blocks at or below _last_block changes neither pointer, starts
\* no sync and sleeps.
C13_BlockStep ==
    [][/\ (ListenerStep /\ l_pc = "run_loop" /\ ~shutdown
           /\ l_pc' # "crashed" /\ head - Trail > last_block)
          => /\ l_pc' = "run_head_sub"
             /\ run'.head_block = head - Trail
             /\ run'.target_block - last_block =
                   (IF head - Trail - last_block <= 100
                    THEN head - Trail - last_block ELSE 100)
             /\ UNCHANGED <<last_block, last_subscription_id>>
       /\ (l_pc \in SnapshotPcs /\ sync.caller = "run" /\ l_pc' = "run_loop")
          => /\ last_block' = run.target_block
             /\ last_block' - last_block >= 1
             /\ last_block' - last_block <= 100
             /\ last_block' <= run.head_block
       /\ (l_pc # "init" /\ last_block' # last_block)
          => (l_pc \in SnapshotPcs /\ sync.caller = "run"
              /\ l_pc' = "run_loop")
       /\ (ListenerStep /\ l_pc = "run_loop" /\ ~shutdown
           /\ l_pc' # "crashed" /\ head - Trail <= last_block)
          => /\ l_pc' = "run_sleep"
             /\ UNCHANGED <<last_block, last_subscription_id, run, sync,
                            fetched, submitted, tracked>>
       /\ (ListenerStep /\ l_pc = "run_sleep")
          => (l_pc' = "run_loop"
              /\ UNCHANGED <<last_block, last_subscription_id, run, sync,
                             last_read, fetched, submitted, tracked>>)]_vars

\* an iteration that found the head 101 blocks ahead has moved _last_block by
\* 100
C13_Witness ==
    /\ l_pc = "run_loop"
    /\ sync.caller = "run"
    /\ head - Trail - last_block = 1
    /\ last_block = StartHead - Trail + 100

\* the reads the listener makes at a block of its choice
BlockReads == {"get_head_subscription_id", "readSubscriptionBatch",
               "readRedundancyCountBatch"}

\* C14: every head subscription id query, subscription batch read and
\* redundancy count read of setup() and run_forever() is made at a block no
\* higher than the head block the listener saw last minus trail_head_blocks,
\* hence at least trail_head_blocks below the head of the chain.
C14_ReadsTrailHead ==
    last_read.call \in BlockReads =>
        /\ last_read.block <= seen_head - Trail
        /\ last_read.block <= head - Trail

\* a redundancy count read at head - trail_head_blocks, after which the chain
\* has moved on
C14_Witness ==
    /\ last_read = ChainRead("readRedundancyCountBatch", seen_head - Trail)
    /\ head > seen_head

\* the IDs handed to ChainProcessor.track by the first and by the second of
\* two calls of _snapshot_sync(h)
FirstRunIds == {tracked[i] : i \in 1..resync_at}
SecondRunIds == {tracked[i] : i \in (resync_at + 1)..Len(tracked)}

\* C15: when _snapshot_sync(h) is called a second time with the same h and
\* the same pointers, on a chain that has only grown above h, the second run
\* hands ChainProcessor no ID the first run has not handed it, and once the
\* second run has returned it has handed over the same set of IDs.
C15_SnapshotIdempotent ==
    sync.caller = "second" =>
        /\ SecondRunIds \subseteq FirstRunIds
        /\ l_pc = "sync_returned" => SecondRunIds = FirstRunIds

\* both runs handed over two IDs, and a subscription was created above h
\* before the second run read the head subscription id
C15_Witness ==
    /\ sync.caller = "second"
    /\ l_pc = "sync_returned"
    /\ Cardinality(SecondRunIds) = 2
    /\ Len(tracked) = 4
    /\ Len(subs) > HeadSubscriptionId(sync.head_block)

\* C16: once the shutdown flag is set, the retry wrapper of a batch does not
\* start another attempt: a wait that is over after shutdown is not followed
\* by a new read of the batch.
C16_NoRetryAfterShutdown ==
    [][(shutdown /\ l_pc = "batch_backoff") => l_pc' # "batch_read"]_vars

\* C17: before shutdown, no failure of a chain RPC call ends run_forever or
\* leaves setup() as an exception.
C17_FailureNeverSurfaces == l_pc = "crashed" => shutdown

\* the read each position of _snapshot_sync makes next
SnapshotRead ==
    [p \in {"snapshot_head_sub", "batch_read", "batch_counts"} |->
        CASE p = "snapshot_head_sub" -> "get_head_subscription_id"
          [] p = "batch_read" -> "readSubscriptionBatch"
          [] p = "batch_counts" -> "readRedundancyCountBatch"]

\* C19: while the chain moves on, every step of one _snapshot_sync(head_block)
\* invocation that reads the chain (the head subscription id query, each
\* batch read and each redundancy count read, first attempt or retry) reads
\* at head_block, which stays what it was at the call; the other steps of the
\* invocation read nothing.
C19_ReadsAtHeadBlock ==
    [][(ListenerStep /\ l_pc \in SnapshotPcs)
          => /\ l_pc' \in SnapshotPcs => sync'.head_block = sync.head_block
             /\ IF l_pc \in DOMAIN SnapshotRead
                THEN last_read' = ChainRead(SnapshotRead[l_pc],
                                           sync.head_block)
                ELSE last_read' = last_read]_vars

\* a batch read is retried at head_block after the chain has moved on
C19_Witness ==
    /\ l_pc = "batch_counts"
    /\ sync.attempts = 1
    /\ last_read = ChainRead("readSubscriptionBatch", sync.head_block)
    /\ head - Trail > sync.head_block

\* the positions of _snapshot_sync inside its loop over the batches
BatchPcs == SnapshotPcs \ {"snapshot_head_sub"}

\* C20: _snapshot_sync starts with the first batch of the plan; a failed
\* attempt of a batch is followed by a wait and a new attempt of the same
\* batch, the wait after the k-th failed attempt being snapshot_sync_sleep *
\* 2^(k-1); the sleep between batches is reached only by an attempt whose two
\* reads succeeded; only from there does the loop go on, to the next batch of
\* the plan or, after the last one, to the return.
C20_BatchOrderAndBackoff ==
    [][ListenerStep
          => /\ (l_pc = "snapshot_head_sub" /\ l_pc' \in BatchPcs)
                => (l_pc' = "batch_read" /\ sync'.batch = 1)
             /\ (l_pc \in {"batch_read", "batch_counts"}
                 /\ l_pc' \notin {"batch_counts", "batch_sleep"})
                => /\ l_pc' = "batch_backoff"
                   /\ sync'.batch = sync.batch
                   /\ sync'.attempts = sync.attempts + 1
                   /\ sync'.delay = SNAPSHOT_SYNC_BATCH_SLEEP_S
                                      * 2 ^ (sync'.attempts - 1)
                   /\ UNCHANGED <<fetched, submitted, tracked>>
             /\ l_pc = "batch_backoff"
                => (l_pc' = "batch_read" /\ sync'.batch = sync.batch
                    /\ sync'.batches = sync.batches)
             /\ l_pc' = "batch_sleep"
                => /\ l_pc = "batch_counts"
                   /\ sync'.batch = sync.batch
                   /\ fetched'.batch = sync.batches[sync.batch]
             /\ (l_pc \in BatchPcs /\ l_pc' \in BatchPcs
                 /\ sync'.batch # sync.batch)
                => /\ l_pc = "batch_sleep"
                   /\ l_pc' = "batch_read"
                   /\ sync'.batch = sync.batch + 1
                   /\ sync'.batches = sync.batches
             /\ (l_pc \in BatchPcs /\ l_pc' \notin BatchPcs)
                => (l_pc = "batch_sleep"
                    /\ sync.batch = Len(sync.batches))]_vars

\* the second batch of the plan is read after the first one failed twice,
\* the second wait being twice snapshot_sync_sleep
C20_Witness ==
    /\ l_pc = "batch_backoff"
    /\ sync.batch = 2
    /\ sync.attempts = 2
    /\ sync.delay = 2 * SNAPSHOT_SYNC_BATCH_SLEEP_S
    /\ fetched.batch = sync.batches[1]

\* the IDs handed to ChainProcessor.track, in order, by the first and by the
\* second of two calls of _snapshot_sync(h)
FirstRunTracked ==
    SubSeq(tracked, 1,
           IF sync.caller = "second" THEN resync_at ELSE Len(tracked))
SecondRunTracked ==
    IF sync.caller = "second" THEN SubSeq(tracked, resync_at + 1, Len(tracked))
    ELSE <<>>

StrictlyAscending(ids) ==
    \A i, j \in 1..Len(ids) : i < j => ids[i] < ids[j]

\* C21: the IDs one _snapshot_sync invocation hands to ChainProcessor.track
\* are strictly ascending in the order they are handed over, inside a batch
\* and from one batch to the next, whatever attempts of a batch failed and
\* were retried.
C21_TrackedAscending ==
    /\ StrictlyAscending(FirstRunTracked)
    /\ StrictlyAscending(SecondRunTracked)

\* one invocation handed over the IDs of two batches, the second batch at its
\* third attempt
C21_Witness ==
    /\ sync.caller = "first"
    /\ l_pc = "sync_returned"
    /\ Len(sync.batches) = 2
    /\ sync.attempts = 2
    /\ tracked = <<1, 2, 3>>

\* C22: a _snapshot_sync that finds _last_subscription_id + 1 above the head
\* subscription id at its block returns at once, with no batch read, no
\* Guardian call, no ChainProcessor submission and both pointers as they
\* were; and no batch is ever read with an end at or below its start.
C22_NoOpWhenNothingNew ==
    [][ListenerStep
          => /\ (l_pc = "snapshot_head_sub" /\ l_pc' # "crashed"
                 /\ last_subscription_id + 1
                       > HeadSubscriptionId(sync.head_block))
                => /\ l_pc' \notin SnapshotPcs
                   /\ UNCHANGED <<last_block, last_subscription_id, fetched,
                                  submitted, tracked>>
             /\ l_pc' = "batch_read"
                => sync'.batches[sync'.batch][2]
                      > sync'.batches[sync'.batch][1]]_vars

\* C24: every run_forever iteration starts by reading the shutdown flag. With
\* the flag set the loop exits there and then, with no chain read, no sync
\* and no pointer update, and nothing happens afterwards; with the flag clear
\* the iteration goes on to sync if head - trail_head_blocks is above
\* _last_block and to sleep otherwise (as long as its RPC calls return), and
\* comes back to the head of the loop; the loop is left nowhere else.
C24_ShutdownCheckedEachIteration ==
    [][/\ (ListenerStep /\ l_pc = "run_loop" /\ shutdown)
          => /\ l_pc' = "stopped"
             /\ UNCHANGED <<last_block, last_subscription_id, run, sync,
                            last_read, seen_head, fetched, submitted, tracked>>
       /\ (ListenerStep /\ l_pc = "run_loop" /\ ~shutdown
           /\ l_pc' # "crashed")
          => /\ l_pc' = (IF head - Trail > last_block THEN "run_head_sub"
                         ELSE "run_sleep")
             /\ last_read' = ChainRead("get_head_block_number", head)
       /\ (ListenerStep
           /\ l_pc \in {"run_head_sub", "run_sleep"} \cup SnapshotPcs)
          => l_pc' \in {"run_loop", "crashed"} \cup SnapshotPcs
       /\ l_pc' = "stopped" => (l_pc = "run_loop" /\ shutdown)
       /\ l_pc = "stopped" => UNCHANGED listenerVars]_vars

\* an iteration finished its sync and moved the pointers, and the next one
\* found the flag set and left the loop
C24_Witness ==
    /\ l_pc = "stopped"
    /\ shutdown
    /\ sync.caller = "run"
    /\ last_block = run.target_block
    /\ last_read.call = "readRedundancyCountBatch"


\* C26: under setup() followed by run_forever(), every subscription ID in
\* 1.._last_subscription_id was returned by a batch read of an attempt whose
\* two chain reads both succeeded, so the pointer never passes an ID that
\* was not read.
C26_PointerCovered ==
    \A id \in 1..last_subscription_id : id \in covered

\* The pointer reached the last subscription after the chain had advanced.
C26_Witness ==
    /\ l_pc = "run_loop"
    /\ advances = 1
    /\ last_subscription_id = MaxSubs
    /\ covered = 1..MaxSubs


NoDuplicates(ids) ==
    \A i, j \in 1..Len(ids) : ids[i] = ids[j] => i = j

\* C27: an attempt of a batch that fails in readSubscriptionBatch or in
\* readRedundancyCountBatch has called neither Guardian nor
\* ChainProcessor.track: both sequences grow only in the step that ends an
\* attempt whose two reads succeeded. So no ID is handed to ChainProcessor
\* twice by one _snapshot_sync invocation, whatever attempts failed.
C27_FailedAttemptProcessesNothing ==
    [][/\ (submitted' # submitted \/ tracked' # tracked)
          => (l_pc = "batch_counts" /\ l_pc' = "batch_sleep")
       /\ (l_pc' = "batch_backoff" /\ l_pc # "batch_backoff")
          => (l_pc \in {"batch_read", "batch_counts"}
              /\ UNCHANGED <<submitted, tracked>>)
       /\ NoDuplicates(FirstRunTracked')
       /\ NoDuplicates(SecondRunTracked')]_vars

\* the second batch failed twice, the second time in the redundancy counts,
\* after the first batch had handed over its two IDs
C27_Witness ==
    /\ l_pc = "batch_backoff"
    /\ last_read.call = "readRedundancyCountBatch"
    /\ sync.batch = 2
    /\ sync.attempts = 2
    /\ tracked = <<1, 2>>


\* run_forever has nothing left to sync and stays in its sleeping branch
CaughtUp ==
    /\ l_pc \in {"run_loop", "run_sleep"}
    /\ last_block = head - Trail

\* C28: once the head has stopped at H, with chain reads succeeding and no
\* shutdown, run_forever eventually stays caught up at H - trail_head_blocks
\* with _last_subscription_id equal to the head subscription id at that
\* block.
C28_CatchUp ==
    <>[](CaughtUp /\ last_subscription_id = HeadSubscriptionId(head - Trail))

\* the part of the catch-up that does not concern the subscription pointer
EventuallyCaughtUp == <>[]CaughtUp

====
